---------------------------- MODULE Spec2Model ----------------------------
(***************************************************************************)
(* Model of src/pages/index.tsx (component Home): the React state of the   *)
(* page (wallet, smartWallet, txHash, userOpHash) and the three async      *)
(* handlers signMessage, createSubOrgAndWallet and login.                  *)
(*                                                                         *)
(* Each run of a handler is a process with a program counter.  A handler   *)
(* is cut at its awaits: an action is the code that runs from one await's  *)
(* settlement to the next await (JavaScript runs it to completion).  The   *)
(* two consecutive state updates at the end of createSubOrgAndWallet and   *)
(* login are kept as two steps, so the state between them is a state of    *)
(* the model; no other handler code runs in between (see Busy).            *)
(*                                                                         *)
(* Remote services (key service, backend, node, paymaster, relay) are the  *)
(* environment: each awaited call settles with one of its possible         *)
(* outcomes, chosen nondeterministically.                                  *)
(***************************************************************************)
EXTENDS Integers, Sequences, FiniteSets, TLC

\* ------------------------------------------------------------------ bounds
MaxRuns == 3      \* handler runs started in one behaviour
MaxList == 2      \* longest wallets / accounts list the key service returns

Runs == 1..MaxRuns

\* ------------------------------------------------------------------ values
\* JavaScript objects are records, identifiers and hashes are tuples
\* (<<>> is the empty string "").
Undefined == [tag |-> "undefined"]
Null      == [tag |-> "null"]
EmptyStr  == <<>>
NoAlert   == <<>>

Addr(k)    == <<"0x", k>>
OrgId(k)   == <<"org", k>>
WalletId(k) == <<"wallet", k>>

\* What the key service can hold for the passkey used at login: one
\* sub-organization, wallet and account that exist before the page is loaded.
LoginOrgIds    == {EmptyStr, OrgId(0)}
LoginWalletIds == {EmptyStr, WalletId(0)}
LoginAddresses == {EmptyStr, Addr(0)}

SeqsUpTo(S, n) == UNION {[1..k -> S] : k \in 0..n}

\* SafeAccount.initializeNewAccount(owners): a pure function of the owners.
InitializeNewAccount(owners) ==
    [tag |-> "safe", owners |-> owners, accountAddress |-> <<"safe", owners>>]

\* The MetaTransaction of lines 88-92.
Transaction == [to |-> "zeroAddress", value |-> 0, data |-> "0x"]

\* SafeAccount.getUserOperationEip712Data(userOperation, chainId): every
\* field of the operation but its signature.
GetUserOperationEip712Data(op) ==
    [domain |-> "chainId", primaryType |-> "SafeOp",
     messageValue |-> [sender |-> op.sender, nonce |-> op.nonce,
                       callData |-> op.callData,
                       paymasterAndData |-> op.paymasterAndData]]

\* SafeAccount.formatEip712SignaturesToUseroperationSignature(owners, sigs).
FormatEip712SignaturesToUseroperationSignature(owners, sigs) ==
    [signers |-> owners, signatures |-> sigs]

VARIABLES
    wallet,         \* useState<TWalletState>(null)
    smartWallet,    \* useState<SafeAccount>()
    txHash,         \* useState<string>("")
    userOpHash,     \* useState<string>("")
    pc,             \* position of each handler run
    loc,            \* local variables (and closure) of each handler run
    calls,          \* remote calls each run has issued, in order
    alert,          \* the alert() each run has shown, NoAlert if none
    walletBy,       \* history: the run(s) whose setWallet produced wallet
    smartWalletBy,  \* history: the run(s) whose setSmartWallet produced smartWallet
    chainNonce,     \* environment: next nonce of each smart account on chain
    logoutUserCalled, \* whether the effect of the latest render called logoutUser
    overlapped      \* history: the signMessage runs that were in flight
                    \* together with another signMessage run

vars == <<wallet, smartWallet, txHash, userOpHash, pc, loc, calls, alert,
          walletBy, smartWalletBy, chainNonce, logoutUserCalled, overlapped>>

\* The smart accounts the chain can hold: one per owner address.
Accounts == {InitializeNewAccount(<<Addr(k)>>).accountAddress : k \in 0..MaxRuns}

\* The locals of a run.  wallet and smartWallet are the values signMessage
\* closes over.  A response is kept only where later code of the handler
\* reads it.  error, receiptResult and absent are what the run ended with
\* (absent: the login lookup that came back with nothing).
InitLoc ==
    [wallet |-> Null, smartWallet |-> Undefined,
     userOperation |-> Undefined, eip712Signature |-> Undefined,
     ownersPassed |-> <<>>,
     sendUserOpResponse |-> Undefined, receiptResult |-> Undefined,
     credential |-> Undefined, response |-> Undefined,
     loginResponse |-> Undefined, currentUserSession |-> Undefined,
     walletId |-> EmptyStr, walletAccountsResponse |-> Undefined,
     error |-> Undefined, absent |-> "none"]

\* A handler that has returned or thrown: its locals are gone.
Ended == InitLoc

\* The effect without the test of line 61: every render calls logoutUser.
LogoutEffect_Unconditional(w) == TRUE

\* The effect of lines 58-65, run after a render whose wallet is w: TRUE
\* iff it calls turnkey.logoutUser().
LogoutEffect(w) == w = Null

Init ==
    /\ wallet = Null
    /\ smartWallet = Undefined
    /\ txHash = EmptyStr
    /\ userOpHash = EmptyStr
    /\ pc = [r \in Runs |-> "idle"]
    /\ loc = [r \in Runs |-> InitLoc]
    /\ calls = [r \in Runs |-> <<>>]
    /\ alert = [r \in Runs |-> NoAlert]
    /\ walletBy = {}
    /\ smartWalletBy = {}
    /\ chainNonce = [a \in Accounts |-> 0]
    /\ logoutUserCalled = LogoutEffect(Null)
    /\ overlapped = {}

\* ----------------------------------------------------------- scheduling
\* The positions between two statements with no await in between.
MidPcs == {"c_setWallet", "l_setSmartWallet"}

\* JavaScript runs a handler to completion between awaits: while a run is
\* between its two state updates no other handler code runs.
Busy == \E r \in Runs : pc[r] \in MidPcs

\* Runs are numbered in the order they are started.
CanStart(r) ==
    /\ ~Busy
    /\ pc[r] = "idle"
    /\ \A q \in Runs : q < r => pc[q] # "idle"

Call(r, name) == calls' = [calls EXCEPT ![r] = Append(@, name)]

\* The end of every step: if the step changed one of the four state values
\* React renders Home again, and the effect of lines 58-65 runs with the
\* wallet of that render.
Rendered ==
    logoutUserCalled' =
        IF <<wallet', smartWallet', txHash', userOpHash'>>
               # <<wallet, smartWallet, txHash, userOpHash>>
        THEN LogoutEffect(wallet')
        ELSE logoutUserCalled

\* The signMessage runs that are waiting for a remote call.
InFlight ==
    {q \in Runs : pc[q] \in {"s_createAccount", "s_createUserOperation",
                              "s_sponsor", "s_signTypedData",
                              "s_sendUserOperation", "s_included"}}

\* A signMessage run that starts while others are in flight overlaps them.
StartsInFlight(r) ==
    overlapped' = IF InFlight # {} THEN overlapped \cup InFlight \cup {r}
                  ELSE overlapped


\* ------------------------------------------------------------ signMessage
\* The catch block of signMessage (lines 133-140): the error is shown in an
\* alert and the run ends.
SignCatch(r, message) ==
    /\ alert' = [alert EXCEPT ![r] = <<"Failed to submit user operation: ", message>>]
    /\ loc' = [loc EXCEPT ![r] = [Ended EXCEPT !.error = [message |-> message]]]
    /\ pc' = [pc EXCEPT ![r] = "done"]

\* SignStart with the session check moved behind the first remote call.
SignStart_CheckAfterCall(r) ==
    /\ CanStart(r)
    /\ txHash' = EmptyStr
    /\ userOpHash' = EmptyStr
    /\ Call(r, "createAccount")
    /\ IF wallet = Null \/ smartWallet = Undefined
       THEN SignCatch(r, "wallet not found")
       ELSE /\ loc' = [loc EXCEPT ![r].wallet = wallet,
                                  ![r].smartWallet = smartWallet]
            /\ pc' = [pc EXCEPT ![r] = "s_createAccount"]
            /\ UNCHANGED alert
    /\ UNCHANGED <<wallet, smartWallet, walletBy, smartWalletBy, chainNonce>>
    /\ StartsInFlight(r)
    /\ Rendered

\* SignStart with an in-flight guard: a submission while another
\* signMessage run is in flight is ignored.
SignStart_InFlightGuard(r) ==
    /\ CanStart(r)
    /\ InFlight = {}
    /\ txHash' = EmptyStr
    /\ userOpHash' = EmptyStr
    /\ IF wallet = Null \/ smartWallet = Undefined
       THEN /\ SignCatch(r, "wallet not found")
            /\ UNCHANGED calls
       ELSE /\ loc' = [loc EXCEPT ![r].wallet = wallet,
                                  ![r].smartWallet = smartWallet]
            /\ Call(r, "createAccount")
            /\ pc' = [pc EXCEPT ![r] = "s_createAccount"]
            /\ UNCHANGED alert
    /\ UNCHANGED <<wallet, smartWallet, walletBy, smartWalletBy, chainNonce>>
    /\ StartsInFlight(r)
    /\ Rendered

\* SignStart without lines 69-70: the hashes of an earlier run stay shown.
SignStart_KeepsHashes(r) ==
    /\ CanStart(r)
    /\ IF wallet = Null \/ smartWallet = Undefined
       THEN /\ SignCatch(r, "wallet not found")
            /\ UNCHANGED calls
       ELSE /\ loc' = [loc EXCEPT ![r].wallet = wallet,
                                  ![r].smartWallet = smartWallet]
            /\ Call(r, "createAccount")
            /\ pc' = [pc EXCEPT ![r] = "s_createAccount"]
            /\ UNCHANGED alert
    /\ UNCHANGED <<wallet, smartWallet, txHash, userOpHash,
                   walletBy, smartWalletBy, chainNonce>>
    /\ StartsInFlight(r)
    /\ Rendered

\* Lines 67-80: the handler is entered with the wallet and smartWallet of
\* the render it closes over, clears both hashes, and either throws
\* "wallet not found" or calls createAccount.  signMessage checks the
\* session itself, so it is entered in any state (the form of lines 346-351
\* is the caller that offers it only once wallet is set).
SignStart(r) ==
    /\ CanStart(r)
    /\ txHash' = EmptyStr
    /\ userOpHash' = EmptyStr
    /\ IF wallet = Null \/ smartWallet = Undefined
       THEN /\ SignCatch(r, "wallet not found")
            /\ UNCHANGED calls
       ELSE /\ loc' = [loc EXCEPT ![r].wallet = wallet,
                                  ![r].smartWallet = smartWallet]
            /\ Call(r, "createAccount")
            /\ pc' = [pc EXCEPT ![r] = "s_createAccount"]
            /\ UNCHANGED alert
    /\ UNCHANGED <<wallet, smartWallet, walletBy, smartWalletBy, chainNonce>>
    /\ StartsInFlight(r)
    /\ Rendered

\* Lines 75-98: createAccount resolved; the wallet client and the
\* transaction are built locally and createUserOperation is called.
SignCreateAccountReturn(r) ==
    /\ ~Busy
    /\ pc[r] = "s_createAccount"
    /\ Call(r, "createUserOperation")
    /\ pc' = [pc EXCEPT ![r] = "s_createUserOperation"]
    /\ UNCHANGED <<wallet, smartWallet, txHash, userOpHash, loc, alert,
                   walletBy, smartWalletBy, chainNonce>>
    /\ UNCHANGED overlapped
    /\ Rendered

\* smartWallet.createUserOperation([transaction], nodeUrl, bundlerUrl): the
\* unsigned operation of the account, with the nonce the node reports.
CreateUserOperation(account, transactions) ==
    [sender |-> account.accountAddress,
     nonce |-> chainNonce[account.accountAddress],
     callData |-> transactions,
     paymasterAndData |-> "0x",
     signature |-> Undefined]

\* Lines 94-106: createUserOperation resolved; the paymaster is called.
SignCreateUserOperationReturn(r) ==
    /\ ~Busy
    /\ pc[r] = "s_createUserOperation"
    /\ loc' = [loc EXCEPT ![r].userOperation =
                   CreateUserOperation(loc[r].smartWallet, <<Transaction>>)]
    /\ Call(r, "createSponsorPaymasterUserOperation")
    /\ pc' = [pc EXCEPT ![r] = "s_sponsor"]
    /\ UNCHANGED <<wallet, smartWallet, txHash, userOpHash, alert,
                   walletBy, smartWalletBy, chainNonce>>
    /\ UNCHANGED overlapped
    /\ Rendered

\* SponsoredUserOperation dropped: the builder's operation is kept (the
\* assignment of line 107 is missing).
SponsoredUserOperation_BuilderKept(op) == op

\* paymaster.createSponsorPaymasterUserOperation(op, ...)[0]: the operation
\* with the paymaster's fields filled in.
SponsoredUserOperation(op) == [op EXCEPT !.paymasterAndData = "sponsored"]

\* Lines 101-117: the paymaster answered; userOperation is replaced by its
\* operation, the EIP-712 data is derived and signTypedData is called.
SignSponsorReturn(r) ==
    /\ ~Busy
    /\ pc[r] = "s_sponsor"
    /\ loc' = [loc EXCEPT ![r].userOperation =
                   SponsoredUserOperation(loc[r].userOperation)]
    /\ Call(r, "signTypedData")
    /\ pc' = [pc EXCEPT ![r] = "s_signTypedData"]
    /\ UNCHANGED <<wallet, smartWallet, txHash, userOpHash, alert,
                   walletBy, smartWalletBy, chainNonce>>
    /\ UNCHANGED overlapped
    /\ Rendered

\* viemClient.signTypedData(...): the key service signs the typed data with
\* the key of the viem account (signWith: wallet.address).
SignTypedData(account, typedData) ==
    [signer |-> account, message |-> typedData.messageValue]

\* OwnersPassed with the smart account's address taken for its owner.
OwnersPassed_AccountAddress(r) == <<loc[r].smartWallet.accountAddress>>

\* The owner list handed to the signature formatter (line 121).
OwnersPassed(r) == <<loc[r].wallet.address>>

\* Lines 112-128: the signature arrived; it is formatted with the owner
\* list [wallet.address], stored in the operation, and the operation is
\* sent to the bundler.
SignTypedDataReturn(r) ==
    /\ ~Busy
    /\ pc[r] = "s_signTypedData"
    /\ LET op  == loc[r].userOperation
           sig == SignTypedData(loc[r].wallet.address,
                                GetUserOperationEip712Data(op))
       IN loc' = [loc EXCEPT
                    ![r].eip712Signature = sig,
                    ![r].ownersPassed = OwnersPassed(r),
                    ![r].userOperation = [op EXCEPT !.signature =
                        FormatEip712SignaturesToUseroperationSignature(
                            OwnersPassed(r), <<sig>>)]]
    /\ Call(r, "sendUserOperation")
    /\ pc' = [pc EXCEPT ![r] = "s_sendUserOperation"]
    /\ UNCHANGED <<wallet, smartWallet, txHash, userOpHash, alert,
                   walletBy, smartWalletBy, chainNonce>>
    /\ UNCHANGED overlapped
    /\ Rendered

\* SignSendReturn without setUserOpHash: the handle is never shown.
SignSendReturn_NoHandle(r) ==
    /\ ~Busy
    /\ pc[r] = "s_sendUserOperation"
    /\ loc' = [loc EXCEPT ![r].sendUserOpResponse =
                   [userOperationHash |-> <<"userOpHash", r>>]]
    /\ Call(r, "included")
    /\ pc' = [pc EXCEPT ![r] = "s_included"]
    /\ UNCHANGED <<wallet, smartWallet, txHash, userOpHash, alert,
                   walletBy, smartWalletBy, chainNonce>>
    /\ UNCHANGED overlapped
    /\ Rendered

\* Lines 125-131: the bundler accepted the operation; its hash is shown and
\* the inclusion wait starts.
SignSendReturn(r) ==
    /\ ~Busy
    /\ pc[r] = "s_sendUserOperation"
    /\ loc' = [loc EXCEPT ![r].sendUserOpResponse =
                   [userOperationHash |-> <<"userOpHash", r>>]]
    /\ userOpHash' = <<"userOpHash", r>>
    /\ Call(r, "included")
    /\ pc' = [pc EXCEPT ![r] = "s_included"]
    /\ UNCHANGED <<wallet, smartWallet, txHash, alert,
                   walletBy, smartWalletBy, chainNonce>>
    /\ UNCHANGED overlapped
    /\ Rendered

\* The receipts the inclusion wait can resolve with: the operation was
\* executed, or it was included and failed on chain (success = FALSE).
\* Either way the bundle transaction has a hash.
Receipts(r) ==
    {[success |-> ok, receipt |-> [transactionHash |-> <<"txHash", r>>]] :
        ok \in BOOLEAN}

\* What signMessage does with the receipt (line 132).
TxHashShown(receiptResult) == receiptResult.receipt.transactionHash

\* SignIncludedReturn with a check of receipt.success placed after
\* setTxHash: the hash is shown and then the failure is thrown.
SignIncludedReturn_ThrowAfterShow(r) ==
    /\ ~Busy
    /\ pc[r] = "s_included"
    /\ loc[r].userOperation.nonce = chainNonce[loc[r].userOperation.sender]
    /\ \E rr \in Receipts(r) :
          /\ loc' = [loc EXCEPT ![r] = [Ended EXCEPT !.receiptResult = rr]]
          /\ txHash' = TxHashShown(rr)
          /\ alert' = [alert EXCEPT ![r] =
                IF rr.success THEN @
                ELSE <<"Failed to submit user operation: ", "operation failed">>]
    /\ chainNonce' = [chainNonce EXCEPT ![loc[r].userOperation.sender] = @ + 1]
    /\ pc' = [pc EXCEPT ![r] = "done"]
    /\ UNCHANGED <<wallet, smartWallet, userOpHash, calls,
                   walletBy, smartWalletBy>>
    /\ UNCHANGED overlapped
    /\ Rendered

\* SignIncludedReturn that takes the "waiting for inclusion" handle away
\* when it shows the transaction hash.
SignIncludedReturn_ClearsHandle(r) ==
    /\ ~Busy
    /\ pc[r] = "s_included"
    /\ loc[r].userOperation.nonce = chainNonce[loc[r].userOperation.sender]
    /\ \E rr \in Receipts(r) :
          /\ loc' = [loc EXCEPT ![r] = [Ended EXCEPT !.receiptResult = rr]]
          /\ txHash' = TxHashShown(rr)
    /\ userOpHash' = EmptyStr
    /\ chainNonce' = [chainNonce EXCEPT ![loc[r].userOperation.sender] = @ + 1]
    /\ pc' = [pc EXCEPT ![r] = "done"]
    /\ UNCHANGED <<wallet, smartWallet, calls, alert,
                   walletBy, smartWalletBy>>
    /\ UNCHANGED overlapped
    /\ Rendered

\* Lines 131-132: the inclusion wait resolved with a receipt, whose
\* transaction hash is shown.  An operation is included only with the
\* account's current nonce, which it consumes.
SignIncludedReturn(r) ==
    /\ ~Busy
    /\ pc[r] = "s_included"
    /\ loc[r].userOperation.nonce = chainNonce[loc[r].userOperation.sender]
    /\ \E rr \in Receipts(r) :
          /\ loc' = [loc EXCEPT ![r] = [Ended EXCEPT !.receiptResult = rr]]
          /\ txHash' = TxHashShown(rr)
    /\ chainNonce' = [chainNonce EXCEPT ![loc[r].userOperation.sender] = @ + 1]
    /\ pc' = [pc EXCEPT ![r] = "done"]
    /\ UNCHANGED <<wallet, smartWallet, userOpHash, calls, alert,
                   walletBy, smartWalletBy>>
    /\ UNCHANGED overlapped
    /\ Rendered

\* The error an awaited call of signMessage rejects with.
SignError(p) ==
    CASE p = "s_createAccount"       -> "createAccount failed"
      [] p = "s_createUserOperation" -> "OperationBuildFailed"
      [] p = "s_sponsor"             -> "SponsorshipDenied"
      [] p = "s_signTypedData"       -> "SigningRejected"
      [] p = "s_sendUserOperation"   -> "sendUserOperation failed"
      [] p = "s_included"            -> "inclusion wait failed"

SignAwaits == {"s_createAccount", "s_createUserOperation", "s_sponsor",
               "s_signTypedData", "s_sendUserOperation", "s_included"}

\* SignStepFails with a denied sponsorship swallowed: the run goes on to
\* sign the unsponsored operation.
SignStepFails_SponsorFallback(r) ==
    /\ ~Busy
    /\ pc[r] \in SignAwaits
    /\ IF pc[r] = "s_sponsor"
       THEN /\ loc' = [loc EXCEPT ![r].error = [message |-> SignError(pc[r])]]
            /\ Call(r, "signTypedData")
            /\ pc' = [pc EXCEPT ![r] = "s_signTypedData"]
            /\ UNCHANGED alert
       ELSE /\ SignCatch(r, SignError(pc[r]))
            /\ UNCHANGED calls
    /\ UNCHANGED <<wallet, smartWallet, txHash, userOpHash,
                   walletBy, smartWalletBy, chainNonce>>
    /\ UNCHANGED overlapped
    /\ Rendered

\* SignStepFails with a rejected signature swallowed: the run goes on to
\* send the operation.
SignStepFails_SendUnsigned(r) ==
    /\ ~Busy
    /\ pc[r] \in SignAwaits
    /\ IF pc[r] = "s_signTypedData"
       THEN /\ loc' = [loc EXCEPT ![r].error = [message |-> SignError(pc[r])]]
            /\ Call(r, "sendUserOperation")
            /\ pc' = [pc EXCEPT ![r] = "s_sendUserOperation"]
            /\ UNCHANGED alert
       ELSE /\ SignCatch(r, SignError(pc[r]))
            /\ UNCHANGED calls
    /\ UNCHANGED <<wallet, smartWallet, txHash, userOpHash,
                   walletBy, smartWalletBy, chainNonce>>
    /\ UNCHANGED overlapped
    /\ Rendered

\* SignStepFails with one automatic retry: a refused submission or a failed
\* inclusion wait sends the operation again.
SignStepFails_Resubmit(r) ==
    /\ ~Busy
    /\ pc[r] \in SignAwaits
    /\ IF /\ pc[r] \in {"s_sendUserOperation", "s_included"}
          /\ Cardinality({i \in DOMAIN calls[r] :
                             calls[r][i] = "sendUserOperation"}) < 2
       THEN /\ Call(r, "sendUserOperation")
            /\ pc' = [pc EXCEPT ![r] = "s_sendUserOperation"]
            /\ UNCHANGED <<loc, alert>>
       ELSE /\ SignCatch(r, SignError(pc[r]))
            /\ UNCHANGED calls
    /\ UNCHANGED <<wallet, smartWallet, txHash, userOpHash,
                   walletBy, smartWalletBy, chainNonce>>
    /\ UNCHANGED overlapped
    /\ Rendered

\* Any awaited call of signMessage rejects: the catch block runs.
SignStepFails(r) ==
    /\ ~Busy
    /\ pc[r] \in SignAwaits
    /\ SignCatch(r, SignError(pc[r]))
    /\ UNCHANGED <<wallet, smartWallet, txHash, userOpHash, calls,
                   walletBy, smartWalletBy, chainNonce>>
    /\ UNCHANGED overlapped
    /\ Rendered


\* --------------------------------------------------- createSubOrgAndWallet
\* What `await passkeyClient?.createUserPasskey(...)` can resolve with: no
\* value (no passkey client), or a credential whose challenge or attestation
\* may be missing.
Credentials ==
    {Undefined} \cup
    {[encodedChallenge |-> c, attestation |-> a] :
        c \in {EmptyStr, <<"challenge">>},
        a \in {Undefined, [tag |-> "attestation"]}}

\* Line 158: !credential?.encodedChallenge || !credential?.attestation
CredentialIncomplete(c) ==
    \/ c = Undefined
    \/ c.encodedChallenge = EmptyStr
    \/ c.attestation = Undefined

\* Lines 143-156, offered by the form of lines 263-300 while wallet is null:
\* the passkey ceremony is started.
CreateStart(r) ==
    /\ CanStart(r)
    /\ wallet = Null
    /\ Call(r, "createUserPasskey")
    /\ pc' = [pc EXCEPT ![r] = "c_createUserPasskey"]
    /\ UNCHANGED <<wallet, smartWallet, txHash, userOpHash, loc, alert,
                   walletBy, smartWalletBy, chainNonce>>
    /\ UNCHANGED overlapped
    /\ Rendered

\* Lines 145-166: the ceremony resolved; an incomplete credential makes the
\* handler return false, a complete one is posted to the backend.
CreatePasskeyReturn(r) ==
    /\ ~Busy
    /\ pc[r] = "c_createUserPasskey"
    /\ \E c \in Credentials :
          IF CredentialIncomplete(c)
          THEN /\ loc' = [loc EXCEPT ![r] = Ended]
               /\ pc' = [pc EXCEPT ![r] = "returned_false"]
               /\ UNCHANGED calls
          ELSE /\ loc' = [loc EXCEPT ![r].credential = c]
               /\ Call(r, "POST /api/createSubOrg")
               /\ pc' = [pc EXCEPT ![r] = "c_post"]
    /\ UNCHANGED <<wallet, smartWallet, txHash, userOpHash, alert,
                   walletBy, smartWalletBy, chainNonce>>
    /\ UNCHANGED overlapped
    /\ Rendered

\* The error an awaited call of createSubOrgAndWallet rejects with.
CreateError(p) ==
    CASE p = "c_createUserPasskey" -> "CredentialCeremonyAborted"
      [] p = "c_post"              -> "BackendUnavailable"

\* CreateStepThrows with the smart account stored before the POST resolves:
\* a failed POST leaves it behind.
CreateStepThrows_KeepsDerived(r) ==
    /\ ~Busy
    /\ pc[r] \in {"c_createUserPasskey", "c_post"}
    /\ loc' = [loc EXCEPT ![r] =
                   [Ended EXCEPT !.error = [message |-> CreateError(pc[r])]]]
    /\ pc' = [pc EXCEPT ![r] = "uncaught"]
    /\ IF pc[r] = "c_post"
       THEN /\ smartWallet' = InitializeNewAccount(<<Addr(r)>>)
            /\ smartWalletBy' = {r}
       ELSE UNCHANGED <<smartWallet, smartWalletBy>>
    /\ UNCHANGED <<wallet, txHash, userOpHash, calls, alert,
                   walletBy, chainNonce>>
    /\ UNCHANGED overlapped
    /\ Rendered

\* createSubOrgAndWallet has no try/catch: a rejected await (the ceremony is
\* cancelled or unsupported, the POST fails) leaves the handler as an
\* exception that nothing catches and nothing shows.
CreateStepThrows(r) ==
    /\ ~Busy
    /\ pc[r] \in {"c_createUserPasskey", "c_post"}
    /\ loc' = [loc EXCEPT ![r] =
                   [Ended EXCEPT !.error = [message |-> CreateError(pc[r])]]]
    /\ pc' = [pc EXCEPT ![r] = "uncaught"]
    /\ UNCHANGED <<wallet, smartWallet, txHash, userOpHash, calls, alert,
                   walletBy, smartWalletBy, chainNonce>>
    /\ UNCHANGED overlapped
    /\ Rendered

\* The WalletDetails the backend returns for the sub-organization it
\* created for this request.
CreatedWallet(r) ==
    [id |-> WalletId(r), address |-> Addr(r), subOrgId |-> OrgId(r)]

\* Lines 162-172: the backend answered; the smart account is derived from
\* the returned address, then setSmartWallet and setWallet are called.
\* React either applies the two updates together (batched) or renders after
\* each of them, depending on its version and root: both are possible.
CreatePostReturn(r) ==
    /\ ~Busy
    /\ pc[r] = "c_post"
    /\ smartWallet' = InitializeNewAccount(<<CreatedWallet(r).address>>)
    /\ smartWalletBy' = {r}
    /\ \E batched \in BOOLEAN :
          IF batched
          THEN /\ wallet' = CreatedWallet(r)
               /\ walletBy' = {r}
               /\ loc' = [loc EXCEPT ![r] = Ended]
               /\ pc' = [pc EXCEPT ![r] = "done"]
          ELSE /\ loc' = [loc EXCEPT ![r].response = CreatedWallet(r)]
               /\ pc' = [pc EXCEPT ![r] = "c_setWallet"]
               /\ UNCHANGED <<wallet, walletBy>>
    /\ UNCHANGED <<txHash, userOpHash, calls, alert, chainNonce>>
    /\ UNCHANGED overlapped
    /\ Rendered

\* Line 172: setWallet(response), when it is rendered on its own.
CreateSetWallet(r) ==
    /\ pc[r] = "c_setWallet"
    /\ wallet' = loc[r].response
    /\ walletBy' = {r}
    /\ loc' = [loc EXCEPT ![r] = Ended]
    /\ pc' = [pc EXCEPT ![r] = "done"]
    /\ UNCHANGED <<smartWallet, txHash, userOpHash, calls, alert,
                   smartWalletBy, chainNonce>>
    /\ UNCHANGED overlapped
    /\ Rendered

\* ------------------------------------------------------------------ login
\* LoginCatch that only logs the error to the console.
LoginCatch_ConsoleOnly(r, e) ==
    /\ pc' = [pc EXCEPT ![r] = "done"]
    /\ UNCHANGED alert

\* The catch block of login (lines 213-217).
LoginCatch(r, e) ==
    /\ alert' = [alert EXCEPT ![r] = <<"caught error: ", e>>]
    /\ pc' = [pc EXCEPT ![r] = "done"]

\* One of the early returns of login (lines 180, 185, 190, 200).
LoginReturn(r) == pc' = [pc EXCEPT ![r] = "returned"]

\* What `await passkeyClient?.login()` can resolve with.
LoginResponses ==
    {Undefined} \cup {[organizationId |-> o] : o \in LoginOrgIds}

\* What `await turnkey?.currentUserSession()` can resolve with.
UserSessions == {Undefined, [tag |-> "session"]}

\* What getWallets() can resolve with.
WalletsResponses ==
    {Undefined} \cup
    {[wallets |-> ws] :
        ws \in SeqsUpTo({[walletId |-> w] : w \in LoginWalletIds}, MaxList)}

\* What getWalletAccounts() can resolve with.
WalletAccountsResponses ==
    {Undefined} \cup
    {[accounts |-> as] :
        as \in SeqsUpTo({[address |-> a] : a \in LoginAddresses}, MaxList)}

\* Lines 175-178, offered by the form of lines 316-322 while wallet is null.
LoginStart(r) ==
    /\ CanStart(r)
    /\ wallet = Null
    /\ Call(r, "login")
    /\ pc' = [pc EXCEPT ![r] = "l_login"]
    /\ UNCHANGED <<wallet, smartWallet, txHash, userOpHash, loc, alert,
                   walletBy, smartWalletBy, chainNonce>>
    /\ UNCHANGED overlapped
    /\ Rendered

\* Lines 178-183: !loginResponse?.organizationId returns.
LoginLoginReturn(r) ==
    /\ ~Busy
    /\ pc[r] = "l_login"
    /\ \E resp \in LoginResponses :
          IF resp = Undefined \/ resp.organizationId = EmptyStr
          THEN /\ loc' = [loc EXCEPT ![r] =
                              [Ended EXCEPT !.absent = "organizationId"]]
               /\ LoginReturn(r)
               /\ UNCHANGED calls
          ELSE /\ loc' = [loc EXCEPT ![r].loginResponse = resp]
               /\ Call(r, "currentUserSession")
               /\ pc' = [pc EXCEPT ![r] = "l_currentUserSession"]
    /\ UNCHANGED <<wallet, smartWallet, txHash, userOpHash, alert,
                   walletBy, smartWalletBy, chainNonce>>
    /\ UNCHANGED overlapped
    /\ Rendered

\* Lines 183-188: !currentUserSession returns.
LoginSessionReturn(r) ==
    /\ ~Busy
    /\ pc[r] = "l_currentUserSession"
    /\ \E session \in UserSessions :
          IF session = Undefined
          THEN /\ loc' = [loc EXCEPT ![r] = [Ended EXCEPT !.absent = "session"]]
               /\ LoginReturn(r)
               /\ UNCHANGED calls
          ELSE /\ loc' = [loc EXCEPT ![r].currentUserSession = session]
               /\ Call(r, "getWallets")
               /\ pc' = [pc EXCEPT ![r] = "l_getWallets"]
    /\ UNCHANGED <<wallet, smartWallet, txHash, userOpHash, alert,
                   walletBy, smartWalletBy, chainNonce>>
    /\ UNCHANGED overlapped
    /\ Rendered

\* Line 189, walletsResponse?.wallets[0].walletId: `?.` guards only
\* walletsResponse; on an empty list wallets[0] is undefined and reading
\* .walletId of it throws a TypeError.
FirstWalletIdThrows(resp) == resp # Undefined /\ Len(resp.wallets) = 0
FirstWalletId(resp) ==
    IF resp = Undefined THEN EmptyStr ELSE resp.wallets[1].walletId

\* Lines 188-198: the wallets arrived; the first wallet's accounts are
\* asked for.
LoginWalletsReturn(r) ==
    /\ ~Busy
    /\ pc[r] = "l_getWallets"
    /\ \E resp \in WalletsResponses :
          IF FirstWalletIdThrows(resp)
          THEN /\ loc' = [loc EXCEPT ![r] =
                              [Ended EXCEPT !.absent = "wallets",
                                            !.error = [message |-> "TypeError"]]]
               /\ LoginCatch(r, "TypeError")
               /\ UNCHANGED calls
          ELSE IF FirstWalletId(resp) = EmptyStr
          THEN /\ loc' = [loc EXCEPT ![r] = [Ended EXCEPT !.absent = "wallets"]]
               /\ LoginReturn(r)
               /\ UNCHANGED <<calls, alert>>
          ELSE /\ loc' = [loc EXCEPT ![r].walletId = FirstWalletId(resp)]
               /\ Call(r, "getWalletAccounts")
               /\ pc' = [pc EXCEPT ![r] = "l_getWalletAccounts"]
               /\ UNCHANGED alert
    /\ UNCHANGED <<wallet, smartWallet, txHash, userOpHash,
                   walletBy, smartWalletBy, chainNonce>>
    /\ UNCHANGED overlapped
    /\ Rendered

\* Line 199, walletAccountsResponse?.accounts[0].address: as line 189.
FirstAddressThrows(resp) == resp # Undefined /\ Len(resp.accounts) = 0
FirstAddress(resp) ==
    IF resp = Undefined THEN EmptyStr ELSE resp.accounts[1].address

\* The WalletDetails login builds (lines 203-207).
LoginWallet(r, resp) ==
    [id |-> loc[r].walletId, address |-> FirstAddress(resp),
     subOrgId |-> loc[r].loginResponse.organizationId]

\* LoginOwners with the last account of the list taken for the first.
LoginOwners_LastAccount(resp) ==
    <<resp.accounts[Len(resp.accounts)].address>>

\* The owner list login derives the smart account from (lines 209-211).
LoginOwners(resp) == <<FirstAddress(resp)>>

\* Lines 194-212: the accounts arrived; with a first address, setWallet and
\* setSmartWallet are called, applied together or one render after the
\* other (as in createSubOrgAndWallet).
LoginAccountsReturn(r) ==
    /\ ~Busy
    /\ pc[r] = "l_getWalletAccounts"
    /\ \E resp \in WalletAccountsResponses :
          IF FirstAddressThrows(resp)
          THEN /\ loc' = [loc EXCEPT ![r] =
                              [Ended EXCEPT !.absent = "accounts",
                                            !.error = [message |-> "TypeError"]]]
               /\ LoginCatch(r, "TypeError")
               /\ UNCHANGED <<wallet, walletBy, smartWallet, smartWalletBy>>
          ELSE IF FirstAddress(resp) = EmptyStr
          THEN /\ loc' = [loc EXCEPT ![r] = [Ended EXCEPT !.absent = "accounts"]]
               /\ LoginReturn(r)
               /\ UNCHANGED <<wallet, walletBy, smartWallet, smartWalletBy, alert>>
          ELSE /\ wallet' = LoginWallet(r, resp)
               /\ walletBy' = {r}
               /\ \E batched \in BOOLEAN :
                     IF batched
                     THEN /\ smartWallet' = InitializeNewAccount(LoginOwners(resp))
                          /\ smartWalletBy' = {r}
                          /\ loc' = [loc EXCEPT ![r] = Ended]
                          /\ pc' = [pc EXCEPT ![r] = "done"]
                     ELSE /\ loc' = [loc EXCEPT ![r].walletAccountsResponse = resp]
                          /\ pc' = [pc EXCEPT ![r] = "l_setSmartWallet"]
                          /\ UNCHANGED <<smartWallet, smartWalletBy>>
               /\ UNCHANGED alert
    /\ UNCHANGED <<txHash, userOpHash, calls, chainNonce>>
    /\ UNCHANGED overlapped
    /\ Rendered

\* Lines 209-212: setSmartWallet(initializeNewAccount([address])), when it
\* is rendered on its own.
LoginSetSmartWallet(r) ==
    /\ pc[r] = "l_setSmartWallet"
    /\ smartWallet' = InitializeNewAccount(LoginOwners(loc[r].walletAccountsResponse))
    /\ smartWalletBy' = {r}
    /\ loc' = [loc EXCEPT ![r] = Ended]
    /\ pc' = [pc EXCEPT ![r] = "done"]
    /\ UNCHANGED <<wallet, txHash, userOpHash, calls, alert, walletBy,
                   chainNonce>>
    /\ UNCHANGED overlapped
    /\ Rendered

LoginAwaits == {"l_login", "l_currentUserSession", "l_getWallets",
                "l_getWalletAccounts"}

\* Any awaited call of login rejects: the catch block runs.
LoginStepThrows(r) ==
    /\ ~Busy
    /\ pc[r] \in LoginAwaits
    /\ loc' = [loc EXCEPT ![r] = [Ended EXCEPT !.error = [message |-> "Error"]]]
    /\ LoginCatch(r, "Error")
    /\ UNCHANGED <<wallet, smartWallet, txHash, userOpHash, calls,
                   walletBy, smartWalletBy, chainNonce>>
    /\ UNCHANGED overlapped
    /\ Rendered

\* ---------------------------------------------------------- specification
Next ==
    \E r \in Runs :
        \/ SignStart(r)
        \/ SignCreateAccountReturn(r)
        \/ SignCreateUserOperationReturn(r)
        \/ SignSponsorReturn(r)
        \/ SignTypedDataReturn(r)
        \/ SignSendReturn(r)
        \/ SignIncludedReturn(r)
        \/ SignStepFails(r)
        \/ CreateStart(r)
        \/ CreatePasskeyReturn(r)
        \/ CreateStepThrows(r)
        \/ CreatePostReturn(r)
        \/ CreateSetWallet(r)
        \/ LoginStart(r)
        \/ LoginLoginReturn(r)
        \/ LoginSessionReturn(r)
        \/ LoginWalletsReturn(r)
        \/ LoginAccountsReturn(r)
        \/ LoginSetSmartWallet(r)
        \/ LoginStepThrows(r)

Spec == Init /\ [][Next]_vars

\* The relay answers a run that waits for it: it accepts or refuses the
\* operation, it reports the inclusion or the wait fails.
RelayAnswers(r) ==
    \/ SignSendReturn(r)
    \/ SignIncludedReturn(r)
    \/ pc[r] \in {"s_sendUserOperation", "s_included"} /\ SignStepFails(r)

\* Spec with a relay that eventually answers, and with the synchronous
\* second state update of a handler always run.
LiveSpec ==
    /\ Spec
    /\ \A r \in Runs :
          /\ WF_vars(RelayAnswers(r))
          /\ WF_vars(CreateSetWallet(r))
          /\ WF_vars(LoginSetSmartWallet(r))

\* ------------------------------------------------------------ properties
Issued(r, name) == \E i \in DOMAIN calls[r] : calls[r][i] = name

Failed(r, message) == loc[r].error = [message |-> message]

HasReceipt(r) == loc[r].receiptResult # Undefined

\* C1: a signMessage run whose paymaster call failed has ended with an
\* alert shown, and has issued neither signTypedData nor sendUserOperation.
C1_SponsorshipDeniedStopsRun ==
    \A r \in Runs :
        Failed(r, "SponsorshipDenied") =>
            /\ pc[r] = "done"
            /\ alert[r] # NoAlert
            /\ ~Issued(r, "signTypedData")
            /\ ~Issued(r, "sendUserOperation")

C1_Witness ==
    \E r \in Runs : Failed(r, "SponsorshipDenied") /\ alert[r] # NoAlert

\* C2: a signMessage run whose signTypedData call was rejected has ended
\* with an alert shown, and has not issued sendUserOperation.
C2_SigningRejectedNeverSubmits ==
    \A r \in Runs :
        Failed(r, "SigningRejected") =>
            /\ pc[r] = "done"
            /\ alert[r] # NoAlert
            /\ ~Issued(r, "sendUserOperation")

C2_Witness ==
    \E r \in Runs : Failed(r, "SigningRejected") /\ alert[r] # NoAlert

\* C3: in every signMessage run that has called sendUserOperation, the owner
\* list given to the signature formatter, and so the signer list of the
\* operation's signature, is the owner list of the smartWallet the run uses:
\* no run with differing lists reaches the submission.
C3_OwnersPassedAreSmartWalletOwners ==
    \A r \in Runs :
        Issued(r, "sendUserOperation") /\ pc[r] # "done" =>
            /\ loc[r].ownersPassed = loc[r].smartWallet.owners
            /\ loc[r].userOperation.signature.signers = loc[r].smartWallet.owners

C3_Witness ==
    \E r \in Runs :
        /\ pc[r] = "s_included"
        /\ loc[r].ownersPassed = loc[r].smartWallet.owners

\* C4: a login run that met an absent result (no organizationId, no session,
\* an empty wallet list or no first wallet id, an empty account list or no
\* first address) has returned without an alert and has set neither wallet
\* nor smartWallet.
C4_AbsentResultIsSilent ==
    \A r \in Runs :
        loc[r].absent # "none" =>
            /\ pc[r] = "returned"
            /\ alert[r] = NoAlert
            /\ r \notin walletBy
            /\ r \notin smartWalletBy

\* C5: a run whose inclusion wait returned a receipt of an operation that
\* failed on chain has reported a failure and does not show the receipt's
\* transaction hash as txHash.
C5_FailedReceiptIsNotShownAsIncluded ==
    \A r \in Runs :
        HasReceipt(r) /\ ~loc[r].receiptResult.success =>
            /\ alert[r] # NoAlert
            /\ txHash # TxHashShown(loc[r].receiptResult)

\* C6: a run that has shown a transaction hash got it, non-empty, from its
\* receipt and has shown no failure alert; and a displayed txHash is always
\* the hash of the receipt of such a run.
C6_IncludedExcludesFailed ==
    /\ \A r \in Runs :
          HasReceipt(r) =>
              /\ alert[r] = NoAlert
              /\ TxHashShown(loc[r].receiptResult) # EmptyStr
    /\ txHash # EmptyStr =>
          \E r \in Runs :
              /\ HasReceipt(r)
              /\ alert[r] = NoAlert
              /\ txHash = TxHashShown(loc[r].receiptResult)

C6_Witness ==
    \E r \in Runs :
        /\ HasReceipt(r)
        /\ txHash = TxHashShown(loc[r].receiptResult)
        /\ userOpHash # EmptyStr

\* C7: the step in which the POST of a create-account run fails changes
\* neither wallet nor smartWallet, and a run whose POST failed never sets
\* either of them.
C7_FailedPostSetsNothing ==
    [][\A r \in Runs :
          /\ pc[r] = "c_post" /\ pc'[r] = "uncaught" =>
                wallet' = wallet /\ smartWallet' = smartWallet
          /\ Failed(r, "BackendUnavailable") =>
                /\ pc'[r] = "uncaught"
                /\ r \notin walletBy'
                /\ r \notin smartWalletBy']_vars

C7_Witness ==
    \E r \in Runs : Failed(r, "BackendUnavailable") /\ pc[r] = "uncaught"

\* C8: a create-account run whose credential ceremony failed (it was
\* cancelled or unsupported, or gave no challenge or no attestation) has
\* returned false to its caller, has sent no request to the backend and has
\* set neither wallet nor smartWallet.
C8_CeremonyFailureReturnsFalse ==
    \A r \in Runs :
        pc[r] = "returned_false" \/ Failed(r, "CredentialCeremonyAborted") =>
            /\ pc[r] = "returned_false"
            /\ ~Issued(r, "POST /api/createSubOrg")
            /\ r \notin walletBy
            /\ r \notin smartWalletBy

\* C9: a signMessage run entered while wallet is null or smartWallet is
\* unset ends in that step with the alert 'wallet not found', and a run
\* that has shown this alert has issued no remote call and never issues one.
WalletNotFound == <<"Failed to submit user operation: ", "wallet not found">>

C9_NoSessionNoRemoteCall ==
    [][\A r \in Runs :
          /\ ( /\ pc[r] = "idle"
               /\ pc'[r] \in {"s_createAccount", "done"}
               /\ (wallet = Null \/ smartWallet = Undefined) ) =>
                /\ pc'[r] = "done"
                /\ alert'[r] = WalletNotFound
                /\ calls'[r] = <<>>
          /\ alert[r] = WalletNotFound =>
                calls[r] = <<>> /\ calls'[r] = <<>>]_vars

C9_Witness ==
    \E r \in Runs :
        alert[r] = WalletNotFound /\ pc[r] = "done" /\ calls[r] = <<>>

\* C10: in every state, wallet and smartWallet are both unset, or both set
\* and by the same run.
C10_SessionPairIsWholesale ==
    \/ wallet = Null /\ smartWallet = Undefined
    \/ wallet # Null /\ smartWallet # Undefined /\ walletBy = smartWalletBy

\* C11: in the step that completes a create-account or login run with
\* success, the run has installed both wallet and smartWallet, the owner
\* list of smartWallet is the one-element list [wallet.address], and that
\* address is the backend's (creation) or the key service's (login).
CompletesSessionRun(r) ==
    /\ pc[r] \in {"c_post", "c_setWallet", "l_getWalletAccounts", "l_setSmartWallet"}
    /\ pc'[r] = "done"
    /\ alert'[r] = NoAlert

C11_OwnersAreInstalledWalletAddress ==
    [][\A r \in Runs :
          CompletesSessionRun(r) =>
              /\ walletBy' = {r}
              /\ smartWalletBy' = {r}
              /\ smartWallet'.owners = <<wallet'.address>>
              /\ wallet'.address =
                    IF calls[r][1] = "login" THEN Addr(0) ELSE Addr(r)]_vars

C11_Witness ==
    \E r, q \in Runs :
        /\ pc[r] = "done" /\ Len(calls[r]) = 2
        /\ calls[r][1] = "createUserPasskey"
        /\ pc[q] = "done" /\ Len(calls[q]) = 4 /\ alert[q] = NoAlert
        /\ calls[q][1] = "login"
        /\ walletBy = {q} /\ smartWalletBy = {q}
        /\ smartWallet.owners = <<wallet.address>>

\* C12: a run that has built, sponsored and signed its operation and sent
\* it to a relay that answers, and is not refused by it, first shows its
\* tracking handle with no transaction hash of its own, and after that
\* shows the non-empty transaction hash of its receipt.
RelayRefused(r) ==
    Failed(r, "sendUserOperation failed") \/ Failed(r, "inclusion wait failed")

C12_HandleThenTransactionHash ==
    \A r \in Runs :
        /\ (pc[r] = "s_sendUserOperation") ~>
              \/ RelayRefused(r)
              \/ /\ pc[r] = "s_included"
                 /\ userOpHash = <<"userOpHash", r>>
                 /\ txHash # <<"txHash", r>>
        /\ (pc[r] = "s_included") ~>
              \/ RelayRefused(r)
              \/ /\ HasReceipt(r)
                 /\ txHash = TxHashShown(loc[r].receiptResult)
                 /\ txHash # EmptyStr

C12_Witness ==
    \E r \in Runs :
        /\ HasReceipt(r)
        /\ loc[r].receiptResult.success
        /\ txHash = <<"txHash", r>>
        /\ userOpHash = <<"userOpHash", r>>

\* C13: no run calls sendUserOperation more than once, and a run whose
\* submission or inclusion wait failed has ended with an alert, having
\* issued each of its remote calls exactly once.
Count(r, name) == Cardinality({i \in DOMAIN calls[r] : calls[r][i] = name})

C13_NoAutomaticResubmission ==
    \A r \in Runs :
        /\ Count(r, "sendUserOperation") <= 1
        /\ RelayRefused(r) =>
              /\ pc[r] = "done"
              /\ alert[r] # NoAlert
              /\ \A i \in DOMAIN calls[r] : Count(r, calls[r][i]) = 1

C13_Witness ==
    \E r, q \in Runs :
        /\ Failed(r, "sendUserOperation failed")
        /\ Failed(q, "inclusion wait failed")
        /\ Count(r, "sendUserOperation") = 1
        /\ Count(q, "sendUserOperation") = 1
        /\ pc[r] = "done" /\ pc[q] = "done"

\* C14: a login run in which a step raised an exception has ended in the
\* catch block, has shown the error in an alert, and has set neither wallet
\* nor smartWallet.
C14_LoginExceptionIsCaughtAndShown ==
    \A r \in Runs :
        Failed(r, "Error") \/ Failed(r, "TypeError") =>
            /\ pc[r] = "done"
            /\ alert[r] = <<"caught error: ", loc[r].error.message>>
            /\ r \notin walletBy
            /\ r \notin smartWalletBy

C14_Witness ==
    \E r \in Runs :
        /\ Failed(r, "Error")
        /\ calls[r] = <<"login", "currentUserSession", "getWallets",
                        "getWalletAccounts">>
        /\ alert[r] # NoAlert
        /\ wallet = Null

\* C15: once a run has installed the session (wallet and smartWallet are
\* set, by the same run), no step of another create-account or login run
\* replaces wallet or smartWallet.
Active ==
    wallet # Null /\ smartWallet # Undefined /\ walletBy = smartWalletBy

C15_OnlyOneRunInstallsSession ==
    [][Active => walletBy' = walletBy /\ smartWalletBy' = smartWalletBy]_vars

\* C16: the operation a run has passed to sendUserOperation is the
\* paymaster's operation (not the builder's), its EIP-712 data is the data
\* that was signed, by the owner key of the run's wallet, and it differs
\* from the signed operation in its signature field only.
Submitted(r) == pc[r] \in {"s_sendUserOperation", "s_included"}

C16_SubmittedIsSponsoredAndSigned ==
    \A r \in Runs :
        Submitted(r) =>
            LET op == loc[r].userOperation
                unsigned == [op EXCEPT !.signature = Undefined]
            IN /\ op.paymasterAndData # "0x"
               /\ unsigned = SponsoredUserOperation(
                                [unsigned EXCEPT !.paymasterAndData = "0x"])
               /\ op.signature.signatures = <<loc[r].eip712Signature>>
               /\ loc[r].eip712Signature.message =
                      GetUserOperationEip712Data(op).messageValue
               /\ loc[r].eip712Signature.signer = loc[r].wallet.address

C16_Witness ==
    \E r \in Runs :
        /\ pc[r] = "s_sendUserOperation"
        /\ loc[r].userOperation.paymasterAndData = "sponsored"
        /\ loc[r].userOperation.signature # Undefined

\* C17: signMessage runs are not mutually excluded: whenever a signMessage
\* run is in flight, the next run can be started and goes in flight too
\* (the witness is a state in which two runs in flight have both sent the
\* relay an operation of the same account with the same nonce).
C17_SignMessageIsReentrant ==
    \A r \in Runs :
        CanStart(r) /\ InFlight # {} =>
            ENABLED (SignStart(r) /\ pc'[r] = "s_createAccount")

C17_Witness ==
    \E r, q \in Runs :
        /\ r # q
        /\ Submitted(r) /\ Submitted(q)
        /\ loc[r].userOperation.sender = loc[q].userOperation.sender
        /\ loc[r].userOperation.nonce = loc[q].userOperation.nonce
        /\ loc[r].smartWallet = smartWallet /\ loc[q].smartWallet = smartWallet

\* C18 (as claimed): whenever a transaction hash is displayed, the tracking
\* handle of the same run is displayed with it.
C18_TxHashWithItsHandle ==
    txHash # EmptyStr =>
        \E r \in Runs :
            txHash = <<"txHash", r>> /\ userOpHash = <<"userOpHash", r>>

\* C18 (amended): whenever the transaction hash of a signMessage run that was
\* never in flight together with another signMessage run is displayed, the
\* tracking handle of that run is displayed with it.
C18_TxHashWithItsHandleUnlessOverlapped ==
    \A r \in Runs :
        txHash = <<"txHash", r>> /\ r \notin overlapped =>
            userOpHash = <<"userOpHash", r>>

C18_Witness ==
    \E r, q \in Runs :
        /\ q < r
        /\ HasReceipt(q) /\ HasReceipt(r)
        /\ overlapped = {}
        /\ txHash = <<"txHash", r>>
        /\ userOpHash = <<"userOpHash", r>>

\* C19: the step in which a signMessage run that overlapped no other
\* signMessage run fails before its submission (no session, createAccount,
\* build, sponsorship or signing) leaves txHash and userOpHash empty and
\* changes neither wallet nor smartWallet.
FailsBeforeSubmission(r) ==
    /\ pc'[r] = "done"
    /\ \/ pc[r] = "idle" /\ alert'[r] = WalletNotFound
       \/ pc[r] \in {"s_createAccount", "s_createUserOperation", "s_sponsor",
                     "s_signTypedData"}

C19_EarlyFailureLeavesHashesEmpty ==
    [][\A r \in Runs :
          FailsBeforeSubmission(r) /\ r \notin overlapped' =>
              /\ txHash' = EmptyStr
              /\ userOpHash' = EmptyStr
              /\ wallet' = wallet
              /\ smartWallet' = smartWallet]_vars

C19_Witness ==
    \E q, r \in Runs :
        /\ q < r
        /\ HasReceipt(q)
        /\ q \notin overlapped /\ r \notin overlapped
        /\ Failed(r, "SigningRejected")
        /\ txHash = EmptyStr /\ userOpHash = EmptyStr
        /\ wallet # Null /\ smartWallet # Undefined

\* C20: no step takes wallet from non-null back to null, and no render
\* that shows a non-null wallet has its effect call logoutUser.
C20_SessionNeverReturnsToAnonymous ==
    [][/\ wallet # Null => wallet' # Null
       /\ wallet' # Null => ~logoutUserCalled']_vars

C20_Witness ==
    \E r \in Runs :
        /\ HasReceipt(r)
        /\ wallet # Null
        /\ txHash = <<"txHash", r>>
        /\ ~logoutUserCalled

=============================================================================
